---- MODULE Spec2Model ----
(***************************************************************************)
(* A model of the jpeg2k crate's bridge to the foreign OpenJPEG codec:     *)
(* the memory-backed stream adapter (WrappedSlice and its callbacks), the  *)
(* ownership of the callback context, of the codec handle and of the       *)
(* foreign raster, and the load (Image::from_stream) and save              *)
(* (Image::to_stream) pipelines.                                           *)
(*                                                                         *)
(* Machine words are scaled down: usize is WordBits wide and the i64       *)
(* arguments of the skip/seek callbacks are WordBits wide two's complement *)
(* values, so that the casts between them wrap exactly as in the code.     *)
(***************************************************************************)
EXTENDS Integers, Sequences, FiniteSets, TLC

\* ------------------------------------------------------------------ bounds
\* Width of the model's machine word (usize and i64 in the code).
WordBits == 4
\* Longest borrowed byte buffer handed to Stream::from_bytes.
MaxLen == 2

\* Largest read request: one more than the longest buffer, so that a request
\* can exceed what any buffer holds.
MaxReq == MaxLen + 1

Pow2(k) == 2 ^ k
UsizeMax == Pow2(WordBits) - 1
I64Min == 0 - Pow2(WordBits - 1)
I64Max == Pow2(WordBits - 1) - 1
I64 == I64Min .. I64Max

Min(a, b) == IF a < b THEN a ELSE b

\* The borrowed buffers: byte i (1-based) of every buffer is i.
Buffers == { [i \in 1 .. l |-> i] : l \in 0 .. MaxLen }

\* The foreign caller's destination memory before a read: MaxReq bytes that
\* differ from every byte of every buffer.
FreshOut == [i \in 1 .. MaxReq |-> 255]

\* ------------------------------------------------------------------ casts
\* A cast that keeps the sign of its argument.
AsSigned(n) == n

\* `nb_bytes as usize` on an i64: two's complement reinterpretation.
AsUsize(n) == n % Pow2(WordBits)

\* `... as i64` on a usize.
AsI64(u) == IF u > I64Max THEN u - Pow2(WordBits) ELSE u

\* usize::saturating_add
saturating_add(a, b) == IF a + b > UsizeMax THEN UsizeMax ELSE a + b

\* ------------------------------------------------------------ WrappedSlice
\* WrappedSlice::remaining
remaining(b, off) == Len(b) - off

\* seek without the clamp to the buffer's length.
seek_unclamped(b, new_offset) == new_offset

\* WrappedSlice::seek: the new offset (also the value returned).
seek(b, new_offset) == Min(Len(b), new_offset)

\* consume without the clamp to the buffer's length.
consume_unclamped(b, off, n_bytes) == saturating_add(off, n_bytes)

\* WrappedSlice::consume: the new offset (also the value returned).
consume(b, off, n_bytes) == Min(Len(b), saturating_add(off, n_bytes))

\* read_into that copies from the start of the buffer, not from the cursor.
read_into_from_start(b, off, o, n) ==
  LET rem == Len(b) - off IN
  IF rem = 0
  THEN [offset |-> off, out |-> o, ret |-> 0]
  ELSE LET n_read == Min(rem, n) IN
       [offset |-> Min(Len(b), off + n_read),
        out    |-> SubSeq(b, 1, n_read) \o SubSeq(o, n_read + 1, Len(o)),
        ret    |-> n_read]

\* WrappedSlice::read_into on an output slice made of the first n bytes of o.
read_into(b, off, o, n) ==
  LET rem == remaining(b, off) IN
  IF rem = 0
  THEN [offset |-> off, out |-> o, ret |-> 0]
  ELSE LET n_read  == Min(rem, n)
           end_off == consume(b, off, n_read)
       IN [offset |-> end_off,
           out    |-> SubSeq(b, off + 1, end_off) \o SubSeq(o, n_read + 1, Len(o)),
           ret    |-> n_read]

\* buf_read_stream_read_fn: nul says p_buffer is a null pointer.
buf_read_stream_read_fn(b, off, o, nul, nb_bytes) ==
  IF nul \/ nb_bytes = 0
  THEN [offset |-> off, out |-> o, ret |-> 0]
  ELSE read_into(b, off, o, nb_bytes)

\* A skip callback that returns the number of bytes skipped.
skip_fn_returns_skipped(b, off, nb_bytes) ==
  LET new == Min(Len(b), saturating_add(off, nb_bytes % Pow2(WordBits))) IN
  [offset |-> new, ret |-> new - off]

\* buf_read_stream_skip_fn
buf_read_stream_skip_fn(b, off, nb_bytes) ==
  LET new == consume(b, off, AsUsize(nb_bytes)) IN
  [offset |-> new, ret |-> AsI64(new)]

\* buf_read_stream_seek_fn
buf_read_stream_seek_fn(b, nb_bytes) ==
  LET seek_offset == AsUsize(nb_bytes)
      new_offset  == seek(b, seek_offset)
  IN [offset |-> new_offset, ret |-> IF seek_offset = new_offset THEN 1 ELSE 0]

\* ------------------------------------------------------------------- state
VARIABLES
  mode,            \* the entry point: "bytes", "file" (load) or "save"
  buf,             \* the borrowed byte buffer (WrappedSlice.buf)
  offset,          \* WrappedSlice.offset, the cursor
  out,             \* the foreign caller's destination memory
  call,            \* the last callback: op, argument, cursor before, result
  stream,          \* the Stream value: "none", "live" or "dropped"
  streamHandle,    \* Stream.stream: "none", "null" or "valid"
  isInput,         \* Stream.is_input
  userData,        \* what the foreign stream holds: "none" or "ctx"
  ctx,             \* the boxed WrappedSlice: "none", "raw", "handed", "freed"
  ctxFrees,        \* how often buf_read_stream_free_fn ran
  codec,           \* the Codec handle: "none", "valid" or "destroyed"
  area,            \* DecodeParameters.area is Some
  raster,          \* the foreign opj_image_t: "none", "alive", "destroyed"
  rasterDestroys,  \* how often opj_image_destroy ran on it
  imgOwner,        \* who owns the Image wrapper: "none", "pipeline", "caller"
  steps,           \* the Decoder/Encoder methods run so far, with results
  calls,           \* the foreign calls made so far, with their status
  result,          \* what the entry point returned: "none", "Ok" or an error
  pc,              \* the position in the pipeline
  image,           \* the decoded raster's metadata: color space, components
  alpha_default,   \* the Option<u32> argument of get_pixels
  pixels,          \* what get_pixels returned
  scaled,          \* what draining a data_u8 / data_u16 iterator produced
  threads          \* concurrent decodes of buf: position, cursor, callbacks

vars == << mode, buf, offset, out, call, stream, streamHandle, isInput,
           userData, ctx, ctxFrees, codec, area, raster, rasterDestroys,
           imgOwner, steps, calls, result, pc,
           image, alpha_default, pixels, scaled, threads >>

streamVars == << buf, offset, out, call >>
ownVars == << stream, streamHandle, isInput, userData, ctx, ctxFrees >>
imgVars == << raster, rasterDestroys, imgOwner >>
pixVars == << image, alpha_default, pixels, scaled >>

NoCall == [op |-> "none", n |-> 0, nul |-> FALSE, c |-> 0, ret |-> 0]

\* Option<u32>
None == [some |-> FALSE, v |-> 0]
Some(a) == [some |-> TRUE, v |-> a]

\* No raster metadata yet, no get_pixels result yet, no iterator drained yet.
NoImage == [color_space |-> "Unknown", comps |-> << >>]
NoPixels == [r |-> "none", count |-> 0, cs |-> "none", format |-> "none",
             width |-> 0, height |-> 0, data |-> << >>]
NoScaled == [fn |-> "none", panic |-> FALSE, data |-> << >>]

\* Most decodes running at once over one buffer, and most callbacks their
\* codecs make altogether.
NThreads == 2
MaxCalls == 4

\* A decode that has not made its stream yet.
NoThread == [pc |-> "start", offset |-> 0, trace |-> << >>]

Step(m, r) == [m |-> m, r |-> r]
Foreign(f, ok) == [f |-> f, ok |-> ok]

Init ==
  /\ mode \in {"bytes", "file", "save"}
  /\ buf \in (IF mode = "bytes" THEN Buffers ELSE {<< >>})
  /\ offset = 0
  /\ out = FreshOut
  /\ call = NoCall
  /\ stream = "none"
  /\ streamHandle = "none"
  /\ isInput = FALSE
  /\ userData = "none"
  /\ ctx = "none"
  /\ ctxFrees = 0
  /\ codec = "none"
  /\ area \in (IF mode = "save" THEN {FALSE} ELSE BOOLEAN)
  /\ raster = (IF mode = "save" THEN "alive" ELSE "none")
  /\ rasterDestroys = 0
  /\ imgOwner = (IF mode = "save" THEN "caller" ELSE "none")
  /\ steps = << >>
  /\ calls = << >>
  /\ result = "none"
  /\ pc = "start"
  /\ image = NoImage
  /\ alpha_default = None
  /\ pixels = NoPixels
  /\ scaled = NoScaled
  /\ threads = [t \in 1 .. NThreads |-> NoThread]


\* --------------------------------------------------------------- ownership
\* opj_stream_set_user_data on the handle Stream::from_bytes got: what the
\* foreign stream holds afterwards (a null handle holds nothing).
set_user_data(h) == IF h = "valid" THEN "ctx" ELSE "none"

\* Drop for Stream: opj_stream_destroy runs the registered free callback,
\* buf_read_stream_free_fn, once on the user data the stream holds.
stream_drop_frees(h, ud) == IF h = "valid" /\ ud = "ctx" THEN 1 ELSE 0

DropStream ==
  /\ stream' = "dropped"
  /\ ctxFrees' = ctxFrees + stream_drop_frees(streamHandle, userData)
  /\ ctx' = IF stream_drop_frees(streamHandle, userData) > 0 THEN "freed" ELSE ctx
  /\ userData' = "none"
  /\ UNCHANGED << streamHandle, isInput >>

\* Drop for Codec (a Decoder or Encoder drops its codec, then its stream).
DropDecoder ==
  /\ codec' = "destroyed"
  /\ DropStream

\* Drop for Image: opj_image_destroy on the wrapped raster.
image_drop_destroys(owner) == IF owner = "none" THEN 0 ELSE 1

DropImage ==
  /\ rasterDestroys' = rasterDestroys + image_drop_destroys(imgOwner)
  /\ raster' = IF image_drop_destroys(imgOwner) > 0 THEN "destroyed" ELSE raster
  /\ imgOwner' = "none"

\* ------------------------------------------------------ stream construction
\* Stream::from_bytes
FromBytes ==
  /\ pc = "start"
  /\ mode = "bytes"
  /\ \E h \in {"valid", "null"} :
       /\ streamHandle' = h
       /\ userData' = set_user_data(h)
       /\ calls' = Append(calls, Foreign("opj_stream_default_create", h = "valid"))
  /\ ctx' = IF userData' = "ctx" THEN "handed" ELSE "raw"
  /\ stream' = "live"
  /\ isInput' = TRUE
  /\ offset' = 0
  /\ pc' = "decoder_new"
  /\ UNCHANGED << threads, pixVars, mode, buf, out, call, ctxFrees, codec, area, imgVars, steps, result >>

\* Stream::new_file (from_file: is_input, to_file: not is_input). pathOk
\* says the extension, the UTF-8 conversion and the CString all succeeded.
NewFile ==
  /\ pc = "start"
  /\ mode \in {"file", "save"}
  /\ \E pathOk \in BOOLEAN, h \in {"valid", "null"} :
       IF pathOk
       THEN /\ streamHandle' = h
            /\ calls' = Append(calls, Foreign("opj_stream_create_default_file_stream", h = "valid"))
            /\ stream' = "live"
            /\ isInput' = (mode = "file")
            /\ pc' = IF mode = "file" THEN "decoder_new" ELSE "encoder_new"
            /\ UNCHANGED result
       ELSE /\ result' = "Other"
            /\ pc' = "failed"
            /\ UNCHANGED << streamHandle, calls, stream, isInput >>
  /\ UNCHANGED << threads, pixVars, mode, streamVars, userData, ctx, ctxFrees, codec, area, imgVars, steps >>

\* ------------------------------------------------------------ load pipeline
\* A constructor that takes any stream, whatever its direction.
stream_direction_unchecked(is_input, decoder) == TRUE

\* The assertion that opens Decoder::new (`assert!(stream.is_input())`) and
\* Encoder::new (`assert!(!stream.is_input())`). When it fails the
\* constructor panics: the stream it was given is dropped if the build
\* unwinds, and is not if the build aborts.
stream_direction_ok(is_input, decoder) == is_input = decoder

\* Decoder::new, with Codec::new(fmt, true)
DecoderNew ==
  /\ pc = "decoder_new"
  /\ IF stream_direction_ok(isInput, TRUE)
     THEN \E ok \in BOOLEAN :
            /\ calls' = Append(calls, Foreign("opj_create_decompress", ok))
            /\ IF ok
               THEN /\ codec' = "valid"
                    /\ steps' = Append(steps, Step("Decoder::new", "Ok"))
                    /\ pc' = "setup"
                    /\ UNCHANGED << result, ownVars >>
               ELSE /\ steps' = Append(steps, Step("Decoder::new", "CreateCodecError"))
                    /\ result' = "CreateCodecError"
                    /\ pc' = "failed"
                    /\ DropStream
                    /\ UNCHANGED codec
     ELSE /\ pc' = "panicked"
          /\ \E unwind \in BOOLEAN :
               IF unwind THEN DropStream ELSE UNCHANGED ownVars
          /\ UNCHANGED << calls, codec, steps, result >>
  /\ UNCHANGED << threads, pixVars, mode, streamVars, area, imgVars >>

\* Decoder::setup: the foreign calls `a && b` makes, and its status.
setup_calls(r1, r2) ==
  << Foreign("opj_setup_decoder", r1) >>
    \o (IF r1 THEN << Foreign("opj_decoder_set_strict_mode", r2) >> ELSE << >>)

setup_result(r1, r2) == IF r1 /\ r2 THEN "Ok" ELSE "CreateCodecError"

\* A pipeline that goes on whatever the step returned.
after_step_ignoring_errors(r, next) == next

\* Where Image::from_stream goes after a step that returned r (`?`).
after_step(r, next) == IF r = "Ok" THEN next ELSE "failed"

Setup ==
  /\ pc = "setup"
  /\ \E r1, r2 \in BOOLEAN :
       LET r == setup_result(r1, r2) IN
       /\ calls' = calls \o setup_calls(r1, r2)
       /\ steps' = Append(steps, Step("setup", r))
       /\ pc' = after_step(r, "read_header")
       /\ IF pc' = "failed"
          THEN /\ result' = r
               /\ DropDecoder
          ELSE UNCHANGED << result, codec, ownVars >>
  /\ UNCHANGED << threads, pixVars, mode, streamVars, area, imgVars >>

\* Decoder::read_header up to the foreign call: opj_read_header is entered
\* and may drive the stream callbacks before it returns.
ReadHeaderCall ==
  /\ pc = "read_header"
  /\ pc' = "in_read_header"
  /\ UNCHANGED << threads, pixVars, mode, streamVars, ownVars, codec, area, imgVars, steps, calls, result >>

\* read_header that inspects the status before wrapping the raster.
read_header_status_first(nonnull, res) ==
  IF ~res THEN [r |-> "CodecError", wrapped |-> FALSE]
  ELSE IF nonnull THEN [r |-> "Ok", wrapped |-> TRUE]
  ELSE [r |-> "NullPointerError", wrapped |-> FALSE]

\* read_header that reports every failure as a CodecError.
read_header_one_error_kind(nonnull, res) ==
  IF nonnull /\ res THEN [r |-> "Ok", wrapped |-> TRUE]
  ELSE [r |-> "CodecError", wrapped |-> nonnull]

\* Decoder::read_header after the foreign call: Image::new(img)? and only
\* then the status. nonnull says the call stored a raster pointer.
read_header(nonnull, res) ==
  IF ~nonnull THEN [r |-> "NullPointerError", wrapped |-> FALSE]
  ELSE IF res THEN [r |-> "Ok", wrapped |-> TRUE]
  ELSE [r |-> "CodecError", wrapped |-> TRUE]

ReadHeaderReturn ==
  /\ pc = "in_read_header"
  /\ \E nonnull, res \in BOOLEAN :
       LET h == read_header(nonnull, res) IN
       /\ calls' = Append(calls, Foreign("opj_read_header", res))
       /\ steps' = Append(steps, Step("read_header", h.r))
       /\ pc' = after_step(h.r, "set_decode_area")
       /\ IF pc' = "failed"
          THEN /\ result' = h.r
               /\ rasterDestroys' = rasterDestroys
                    + (IF nonnull THEN image_drop_destroys(IF h.wrapped THEN "pipeline" ELSE "none") ELSE 0)
               /\ raster' = IF ~nonnull THEN "none"
                            ELSE IF rasterDestroys' > rasterDestroys THEN "destroyed"
                            ELSE "alive"
               /\ imgOwner' = "none"
               /\ DropDecoder
          ELSE /\ raster' = "alive"
               /\ imgOwner' = "pipeline"
               /\ UNCHANGED << rasterDestroys, result, codec, ownVars >>
  /\ UNCHANGED << threads, pixVars, mode, streamVars, area >>

\* Decoder::set_decode_area: a foreign call only when an area was given.
set_decode_area_calls(a, res) ==
  IF a THEN << Foreign("opj_set_decode_area", res) >> ELSE << >>

set_decode_area_result(a, res) ==
  IF a /\ ~res THEN "CreateCodecError" ELSE "Ok"

SetDecodeArea ==
  /\ pc = "set_decode_area"
  /\ \E res \in BOOLEAN :
       LET r == set_decode_area_result(area, res) IN
       /\ calls' = calls \o set_decode_area_calls(area, res)
       /\ steps' = Append(steps, Step("set_decode_area", r))
       /\ pc' = after_step(r, "decode")
       /\ IF pc' = "failed"
          THEN /\ result' = r
               /\ DropImage
               /\ DropDecoder
          ELSE UNCHANGED << result, imgVars, codec, ownVars >>
  /\ UNCHANGED << threads, pixVars, mode, streamVars, area >>

\* Decoder::decode up to the first foreign call: opj_decode is entered.
DecodeCall ==
  /\ pc = "decode"
  /\ pc' = "in_decode"
  /\ UNCHANGED << threads, pixVars, mode, streamVars, ownVars, codec, area, imgVars, steps, calls, result >>

\* Decoder::decode: `opj_decode(..) == 1 && opj_end_decompress(..) == 1`;
\* whether the second operand is evaluated once the first returned ok.
decode_continues(ok) == ok

\* Decoder::decode: opj_decode returned.
DecodeReturn ==
  /\ pc = "in_decode"
  /\ \E ok \in BOOLEAN :
       /\ calls' = Append(calls, Foreign("opj_decode", ok))
       /\ IF decode_continues(ok)
          THEN /\ pc' = "in_end_decompress"
               /\ UNCHANGED << steps, result, imgVars, codec, ownVars >>
          ELSE /\ steps' = Append(steps, Step("decode", "CodecError"))
               /\ result' = "CodecError"
               /\ pc' = "failed"
               /\ DropImage
               /\ DropDecoder
  /\ UNCHANGED << threads, pixVars, mode, streamVars, area >>

\* decode that is satisfied with either phase succeeding (|| for &&).
decode_result_either(ok1, ok2) == IF ok1 \/ ok2 THEN "Ok" ELSE "CodecError"

\* Decoder::decode: the value of the && once both operands are known.
decode_result(ok1, ok2) == IF ok1 /\ ok2 THEN "Ok" ELSE "CodecError"

\* Decoder::decode: opj_end_decompress returned; Image::from_stream returns.
EndDecompressReturn ==
  /\ pc = "in_end_decompress"
  /\ \E ok \in BOOLEAN :
       LET r == decode_result(calls[Len(calls)].ok, ok) IN
       /\ calls' = Append(calls, Foreign("opj_end_decompress", ok))
       /\ steps' = Append(steps, Step("decode", r))
       /\ result' = r
       /\ pc' = after_step(r, "done")
       /\ IF pc' = "failed"
          THEN DropImage
          ELSE /\ imgOwner' = "caller"
               /\ UNCHANGED << raster, rasterDestroys >>
       /\ DropDecoder
  /\ UNCHANGED << threads, pixVars, mode, streamVars, area >>

\* The caller drops the Image it holds (the one a load returned, or the one
\* it saved).
CallerDropImage ==
  /\ pc \in {"done", "failed"}
  /\ imgOwner = "caller"
  /\ DropImage
  /\ pc' = "dropped"
  /\ UNCHANGED << threads, pixVars, mode, streamVars, ownVars, codec, area, steps, calls, result >>


\* ------------------------------------------------------------ save pipeline
\* Encoder::new, with Codec::new(fmt, false)
EncoderNew ==
  /\ pc = "encoder_new"
  /\ IF stream_direction_ok(isInput, FALSE)
     THEN \E ok \in BOOLEAN :
            /\ calls' = Append(calls, Foreign("opj_create_compress", ok))
            /\ IF ok
               THEN /\ codec' = "valid"
                    /\ steps' = Append(steps, Step("Encoder::new", "Ok"))
                    /\ pc' = "enc_setup"
                    /\ UNCHANGED << result, ownVars >>
               ELSE /\ steps' = Append(steps, Step("Encoder::new", "CreateCodecError"))
                    /\ result' = "CreateCodecError"
                    /\ pc' = "failed"
                    /\ DropStream
                    /\ UNCHANGED codec
     ELSE /\ pc' = "panicked"
          /\ \E unwind \in BOOLEAN :
               IF unwind THEN DropStream ELSE UNCHANGED ownVars
          /\ UNCHANGED << calls, codec, steps, result >>
  /\ UNCHANGED << threads, pixVars, mode, streamVars, area, imgVars >>

\* Encoder::setup
encoder_setup_result(res) == IF res THEN "Ok" ELSE "CreateCodecError"

EncoderSetup ==
  /\ pc = "enc_setup"
  /\ \E res \in BOOLEAN :
       LET r == encoder_setup_result(res) IN
       /\ calls' = Append(calls, Foreign("opj_setup_encoder", res))
       /\ steps' = Append(steps, Step("setup", r))
       /\ pc' = after_step(r, "encode")
       /\ IF pc' = "failed"
          THEN /\ result' = r
               /\ DropDecoder
          ELSE UNCHANGED << result, codec, ownVars >>
  /\ UNCHANGED << threads, pixVars, mode, streamVars, area, imgVars >>

\* encode that runs all three phases whatever they return (& for &&).
encode_calls_eager(r1, r2, r3) ==
  << [f |-> "opj_start_compress", ok |-> r1],
     [f |-> "opj_encode", ok |-> r2],
     [f |-> "opj_end_compress", ok |-> r3] >>

\* Encoder::encode: the foreign calls `a && b && c` makes, and its status.
encode_calls(r1, r2, r3) ==
  << Foreign("opj_start_compress", r1) >>
    \o (IF r1 THEN << Foreign("opj_encode", r2) >> ELSE << >>)
    \o (IF r1 /\ r2 THEN << Foreign("opj_end_compress", r3) >> ELSE << >>)

encode_result(r1, r2, r3) == IF r1 /\ r2 /\ r3 THEN "Ok" ELSE "CodecError"

\* Encoder::encode; Image::to_stream returns and drops the encoder.
Encode ==
  /\ pc = "encode"
  /\ \E r1, r2, r3 \in BOOLEAN :
       LET r == encode_result(r1, r2, r3) IN
       /\ calls' = calls \o encode_calls(r1, r2, r3)
       /\ steps' = Append(steps, Step("encode", r))
       /\ result' = r
       /\ pc' = after_step(r, "done")
  /\ DropDecoder
  /\ UNCHANGED << threads, pixVars, mode, streamVars, area, imgVars >>

\* --------------------------------------------------------------- callbacks
\* The foreign codec is inside a call that was given the stream, and the
\* stream it was given carries the callbacks and their context.
InForeignCall == pc \in {"in_read_header", "in_decode", "in_end_decompress"}

CallbackPossible ==
  /\ InForeignCall
  /\ stream = "live"
  /\ streamHandle = "valid"
  /\ userData = "ctx"

\* The foreign codec calls buf_read_stream_read_fn on fresh destination memory.
ReadFn ==
  /\ CallbackPossible
  /\ \E nul \in BOOLEAN, n \in 0 .. MaxReq :
       LET r == buf_read_stream_read_fn(buf, offset, FreshOut, nul, n) IN
       /\ offset' = r.offset
       /\ out' = r.out
       /\ call' = [op |-> "read", n |-> n, nul |-> nul, c |-> offset, ret |-> r.ret]
  /\ UNCHANGED << threads, pixVars, mode, buf, ownVars, codec, area, imgVars, steps, calls, result, pc >>

\* The foreign codec calls buf_read_stream_skip_fn.
SkipFn ==
  /\ CallbackPossible
  /\ \E n \in I64 :
       LET r == buf_read_stream_skip_fn(buf, offset, n) IN
       /\ offset' = r.offset
       /\ call' = [op |-> "skip", n |-> n, nul |-> FALSE, c |-> offset, ret |-> r.ret]
  /\ UNCHANGED << threads, pixVars, mode, buf, out, ownVars, codec, area, imgVars, steps, calls, result, pc >>

\* The foreign codec calls buf_read_stream_seek_fn.
SeekFn ==
  /\ CallbackPossible
  /\ \E n \in I64 :
       LET r == buf_read_stream_seek_fn(buf, n) IN
       /\ offset' = r.offset
       /\ call' = [op |-> "seek", n |-> n, nul |-> FALSE, c |-> offset, ret |-> r.ret]
  /\ UNCHANGED << threads, pixVars, mode, buf, out, ownVars, codec, area, imgVars, steps, calls, result, pc >>

\* ----------------------------------------------------------- specification
Next ==
  \/ FromBytes
  \/ NewFile
  \/ DecoderNew
  \/ Setup
  \/ ReadHeaderCall
  \/ ReadHeaderReturn
  \/ SetDecodeArea
  \/ DecodeCall
  \/ DecodeReturn
  \/ EndDecompressReturn
  \/ CallerDropImage
  \/ EncoderNew
  \/ EncoderSetup
  \/ Encode
  \/ ReadFn
  \/ SkipFn
  \/ SeekFn

Spec == Init /\ [][Next]_vars

\* ------------------------------------------------------- misuse of a stream
\* Decoder::new and Encoder::new are crate-internal and take any Stream: a
\* caller inside the crate can hand an output stream to Decoder::new, or an
\* input stream to Encoder::new.
WrongConstructor ==
  /\ \/ pc = "decoder_new" /\ isInput /\ pc' = "encoder_new"
     \/ pc = "encoder_new" /\ ~isInput /\ pc' = "decoder_new"
  /\ UNCHANGED << threads, pixVars, mode, streamVars, ownVars, codec, area,
                  imgVars, steps, calls, result >>

NextMisuse == Next \/ WrongConstructor

SpecMisuse == Init /\ [][NextMisuse]_vars


\* ------------------------------------------------------------ DumpImage
\* DumpImage::from_stream once read_header returned Ok: it returns
\* Ok(Self { decoder, img }) to the caller, who now holds the decoder, its
\* stream and the image behind the DumpImage.
DumpFromStreamReturn ==
  /\ pc = "set_decode_area"
  /\ result' = "Ok"
  /\ imgOwner' = "caller"
  /\ pc' = "dump_loaded"
  /\ UNCHANGED << threads, pixVars, mode, streamVars, ownVars, codec, area,
                  raster, rasterDestroys, steps, calls >>

\* Decoder::decode: the foreign calls its && makes.
decode_calls(ok1, ok2) ==
  << Foreign("opj_decode", ok1) >>
    \o (IF decode_continues(ok1) THEN << Foreign("opj_end_decompress", ok2) >>
        ELSE << >>)

\* DumpImage::decode: self.decoder.decode(&self.img); the DumpImage keeps
\* its decoder and its image whatever the outcome.
DumpDecode ==
  /\ pc = "dump_loaded"
  /\ \E ok1, ok2 \in BOOLEAN :
       LET r == decode_result(ok1, decode_continues(ok1) /\ ok2) IN
       /\ calls' = calls \o decode_calls(ok1, ok2)
       /\ steps' = Append(steps, Step("decode", r))
       /\ result' = r
  /\ pc' = "dump_decoded"
  /\ UNCHANGED << threads, pixVars, mode, streamVars, ownVars, codec, area,
                  imgVars >>

\* The caller drops the DumpImage: its decoder (codec, then stream) and its
\* image are dropped.
DumpDrop ==
  /\ pc \in {"dump_loaded", "dump_decoded"}
  /\ DropDecoder
  /\ DropImage
  /\ pc' = "dropped"
  /\ UNCHANGED << threads, pixVars, mode, streamVars, area, steps, calls,
                  result >>

InitDump == Init /\ mode \in {"bytes", "file"}

NextDump ==
  \/ FromBytes
  \/ NewFile
  \/ DecoderNew
  \/ Setup
  \/ ReadHeaderCall
  \/ ReadHeaderReturn
  \/ DumpFromStreamReturn
  \/ DumpDecode
  \/ DumpDrop
  \/ ReadFn
  \/ SkipFn
  \/ SeekFn

SpecDump == InitDump /\ [][NextDump]_vars


\* ============================================================ pixel data
\* Everything the load and save pipelines own; the accessors of a decoded
\* Image leave it alone.
pipeVars == << mode, streamVars, ownVars, codec, area, imgVars, steps, calls,
               result, pc >>

\* The pipeline after Image::from_file returned Ok(image) to the caller: the
\* decoder and its stream are dropped, the caller owns the live raster.
Loaded ==
  /\ mode = "file"
  /\ buf = << >>
  /\ offset = 0
  /\ out = FreshOut
  /\ call = NoCall
  /\ stream = "dropped"
  /\ streamHandle = "valid"
  /\ isInput = TRUE
  /\ userData = "none"
  /\ ctx = "none"
  /\ ctxFrees = 0
  /\ codec = "destroyed"
  /\ area = FALSE
  /\ raster = "alive"
  /\ rasterDestroys = 0
  /\ imgOwner = "caller"
  /\ steps = << Step("Decoder::new", "Ok"), Step("setup", "Ok"),
                Step("read_header", "Ok"), Step("set_decode_area", "Ok"),
                Step("decode", "Ok") >>
  /\ calls = << Foreign("opj_stream_create_default_file_stream", TRUE),
                Foreign("opj_create_decompress", TRUE),
                Foreign("opj_setup_decoder", TRUE),
                Foreign("opj_decoder_set_strict_mode", TRUE),
                Foreign("opj_read_header", TRUE),
                Foreign("opj_decode", TRUE),
                Foreign("opj_end_decompress", TRUE) >>
  /\ result = "Ok"
  /\ pc = "done"
  /\ threads = [t \in 1 .. NThreads |-> NoThread]

\* ---------------------------------------------------------------- rescale
\* `/` on i64 with a positive divisor: the quotient truncated toward zero.
i64_div(a, b) == IF a >= 0 THEN a \div b ELSE 0 - ((0 - a) \div b)

\* `(a * n) / m` on u64, for a, n >= 0 and m > 0.  The product is split as
\* a * (n div m) + (a * (n mod m)) div m, which is the same quotient, so that
\* no intermediate value exceeds the model checker's 32-bit integers.
u64_mul_div(a, n, m) == a * (n \div m) + (a * (n % m)) \div m

\* `as u8` (T = 8) and `as u16` (T = 16) on an integer: the low T bits.
as_uT(v, T) == v % Pow2(T)

\* What a sample maps to when the T-bit addition `... + ADJUST` overflows in
\* a build with overflow checks: the iterator panics.
Overflow == 0 - 1

\* The unsigned closure with the target maximum taken as 2^T.
rescale_unsigned_pow2(T, prec, p) ==
  as_uT(u64_mul_div(p, Pow2(T), Pow2(prec) - 1), T)

\* The closure of the unsigned branch of data_u8 (T = 8) / data_u16 (T = 16)
\* on one sample p of a component of precision prec.
rescale_unsigned(T, prec, p) ==
  LET old_max == Pow2(prec) - 1
      NEW_MAX == Pow2(T) - 1
  IN as_uT(u64_mul_div(p, NEW_MAX, old_max), T)

\* The closure of the signed branch of data_u8 / data_u16.  chk says the
\* build checks arithmetic overflow (it panics) instead of wrapping.
rescale_signed(T, prec, p, chk) ==
  LET old_max == Pow2(prec - 1)
      NEW_MAX == Pow2(T - 1)
      ADJUST  == as_uT(NEW_MAX - 1, T)
      x       == as_uT(i64_div(p * NEW_MAX, old_max), T)
  IN IF x + ADJUST < Pow2(T) THEN x + ADJUST
     ELSE IF chk THEN Overflow
     ELSE (x + ADJUST) % Pow2(T)

\* Width of the model's u32, the type of a component's width and height.
DimBits == 4

\* `self.0.w * self.0.h` on u32: Overflow where a build with overflow checks
\* panics, the low bits where a build without them wraps.
u32_mul(a, b, chk) ==
  IF a * b < Pow2(DimBits) THEN a * b
  ELSE IF chk THEN Overflow
  ELSE (a * b) % Pow2(DimBits)

\* `let len = (self.0.w * self.0.h) as usize` of data, data_u8 and data_u16.
data_len(c, chk) == u32_mul(c.w, c.h, chk)

\* ImageComponent::data: the first len samples of the raster's array.
data(c, chk) ==
  SubSeq(c.data, 1, IF data_len(c, chk) = Overflow THEN 0 ELSE data_len(c, chk))

\* ImageComponent::data_u8 / data_u16, drained: the mapped samples in order.
data_uT(T, c, chk) ==
  IF data_len(c, chk) = Overflow THEN << Overflow >>
  ELSE [k \in 1 .. Len(data(c, chk)) |->
          IF c.sgnd THEN rescale_signed(T, c.prec, data(c, chk)[k], chk)
          ELSE rescale_unsigned(T, c.prec, data(c, chk)[k])]

data_u8(c, chk) == data_uT(8, c, chk)
data_u16(c, chk) == data_uT(16, c, chk)

\* Whether draining an iterator panicked.
panicked(d) == \E k \in DOMAIN d : d[k] = Overflow

\* Precisions up to FullPrec are explored over their whole sample range;
\* above it, over the EdgeSpan lowest, middle and highest samples.
FullPrec == 8
EdgeSpan == 2

\* The sample range of a component: lowest and highest sample.
sample_lo(prec, sgnd) == IF sgnd THEN 0 - Pow2(prec - 1) ELSE 0
sample_hi(prec, sgnd) == sample_lo(prec, sgnd) + Pow2(prec) - 1

Samples(prec, sgnd) ==
  LET lo  == sample_lo(prec, sgnd)
      hi  == sample_hi(prec, sgnd)
      mid == lo + Pow2(prec - 1)
  IN IF prec <= FullPrec THEN lo .. hi
     ELSE (lo .. lo + EdgeSpan) \cup (mid - EdgeSpan .. mid + EdgeSpan)
          \cup (hi - EdgeSpan .. hi)

\* A component holding sample s and its successor in the source range.
PairComponent(prec, sgnd, s) ==
  [w |-> 2, h |-> 1, prec |-> prec, sgnd |-> sgnd, alpha |-> FALSE,
   data |-> << s, Min(s + 1, sample_hi(prec, sgnd)) >>]

InitRescale ==
  /\ Loaded
  /\ \E prec \in 1 .. 16, sgnd \in BOOLEAN :
       \E s \in Samples(prec, sgnd) :
         image = [color_space |-> "Gray",
                  comps |-> << PairComponent(prec, sgnd, s) >>]
  /\ alpha_default = None
  /\ pixels = NoPixels
  /\ scaled = NoScaled

Drain(fn, d) ==
  [fn |-> fn, panic |-> panicked(d), data |-> IF panicked(d) THEN << >> ELSE d]

\* component.data_u8().collect()
DataU8 ==
  /\ Len(image.comps) = 1
  /\ scaled = NoScaled
  /\ \E chk \in BOOLEAN :
       scaled' = Drain("data_u8", data_u8(image.comps[1], chk))
  /\ UNCHANGED << threads, pipeVars, image, alpha_default, pixels >>

\* component.data_u16().collect()
DataU16 ==
  /\ Len(image.comps) = 1
  /\ scaled = NoScaled
  /\ \E chk \in BOOLEAN :
       scaled' = Drain("data_u16", data_u16(image.comps[1], chk))
  /\ UNCHANGED << threads, pipeVars, image, alpha_default, pixels >>

NextRescale ==
  \/ DataU8
  \/ DataU16

SpecRescale == InitRescale /\ [][NextRescale]_vars


\* -------------------------------------------------------------- get_pixels
\* enum ColorSpace
ColorSpaces ==
  {"Unknown", "Unspecified", "SRGB", "Gray", "SYCC", "EYCC", "CMYK"}

\* A color space match that lets SYCC through as well.
color_space_supported_or_sycc(cs) ==
  cs \in {"Unknown", "Unspecified", "SRGB", "Gray", "SYCC"}

\* The color space match of get_pixels: the arms that fall through.
color_space_supported(cs) ==
  cs \in {"Unknown", "Unspecified", "SRGB", "Gray"}

\* comps.iter().fold(u32::MIN, |max, c| max.max(c.precision()))
RECURSIVE fold_max_prec(_, _)
fold_max_prec(max, comps) ==
  IF comps = << >> THEN max
  ELSE fold_max_prec(IF Head(comps).prec > max THEN Head(comps).prec ELSE max,
                     Tail(comps))

\* An alpha test that finds a flag on every image.
has_alpha_always(comps) == TRUE

\* comps.iter().any(|c| c.is_alpha())
has_alpha(comps) == \E j \in DOMAIN comps : comps[j].alpha

\* Precision ranges that select u8 for every supported precision.
channel_bits_always_u8(max_prec) == IF max_prec \in 1 .. 16 THEN 8 ELSE 0

\* Precision ranges whose 16-bit arms take every precision above 8.
channel_bits_unbounded(max_prec) ==
  IF max_prec \in 1 .. 8 THEN 8
  ELSE IF max_prec >= 9 THEN 16
  ELSE 0

\* The width of the output samples the precision ranges of the match arms
\* select: 1..=8 gives u8, 9..=16 gives u16; 0 stands for no arm.
channel_bits(max_prec) ==
  IF max_prec \in 1 .. 8 THEN 8
  ELSE IF max_prec \in 9 .. 16 THEN 16
  ELSE 0

\* The names of enum ImageFormat.
format_name(base, bits) ==
  IF bits = 8
  THEN (CASE base = "L" -> "L8" [] base = "La" -> "La8"
          [] base = "Rgb" -> "Rgb8" [] base = "Rgba" -> "Rgba8")
  ELSE (CASE base = "L" -> "L16" [] base = "La" -> "La16"
          [] base = "Rgb" -> "Rgb16" [] base = "Rgba" -> "Rgba16")

NoArm == [format |-> "none", const_alpha |-> FALSE]
Arm(base, bits, const_alpha) ==
  [format |-> format_name(base, bits), const_alpha |-> const_alpha]

\* The match with the 4-component arms requiring an alpha flag.
match_arm_flagged_rgba(n, alpha_flag, max_prec, alpha) ==
  LET bits == channel_bits(max_prec) IN
  IF bits = 0 THEN NoArm
  ELSE IF n = 1 THEN Arm(IF alpha.some THEN "La" ELSE "L", bits, alpha.some)
  ELSE IF n = 2 /\ alpha_flag THEN Arm("La", bits, FALSE)
  ELSE IF n = 3 /\ ~alpha_flag
       THEN Arm(IF alpha.some THEN "Rgba" ELSE "Rgb", bits, alpha.some)
  ELSE IF n = 4 /\ alpha_flag THEN Arm("Rgba", bits, FALSE)
  ELSE NoArm

\* `match (comps, has_alpha, max_prec)`: the arm taken, as the format it sets
\* and whether it appends the caller's constant alpha to every pixel.
match_arm(n, alpha_flag, max_prec, alpha) ==
  LET bits == channel_bits(max_prec) IN
  IF bits = 0 THEN NoArm
  ELSE IF n = 1 THEN Arm(IF alpha.some THEN "La" ELSE "L", bits, alpha.some)
  ELSE IF n = 2 /\ alpha_flag THEN Arm("La", bits, FALSE)
  ELSE IF n = 3 /\ ~alpha_flag
       THEN Arm(IF alpha.some THEN "Rgba" ELSE "Rgb", bits, alpha.some)
  ELSE IF n = 4 THEN Arm("Rgba", bits, FALSE)
  ELSE NoArm

\* A zip whose rows hold the channels in reverse order.
RECURSIVE zip_collect_reversed(_, _, _)
zip_collect_reversed(chans, k, j) ==
  IF k > Len(chans[j]) THEN [panic |-> FALSE, rows |-> << >>]
  ELSE IF chans[j][k] = Overflow THEN [panic |-> TRUE, rows |-> << >>]
  ELSE IF j < Len(chans) THEN zip_collect_reversed(chans, k, j + 1)
  ELSE LET rest == zip_collect_reversed(chans, k + 1, 1) IN
       [panic |-> rest.panic,
        rows  |-> << [i \in 1 .. Len(chans) |-> chans[Len(chans) + 1 - i][k]] >>
                  \o rest.rows]

\* r.data_uT().zip(g.data_uT().zip(...)) drained from sample k, channel j on:
\* each next() asks the channels in declared order, ends at the first one
\* that is exhausted and panics at the first sample whose closure overflows.
RECURSIVE zip_collect(_, _, _)
zip_collect(chans, k, j) ==
  IF k > Len(chans[j]) THEN [panic |-> FALSE, rows |-> << >>]
  ELSE IF chans[j][k] = Overflow THEN [panic |-> TRUE, rows |-> << >>]
  ELSE IF j < Len(chans) THEN zip_collect(chans, k, j + 1)
  ELSE LET rest == zip_collect(chans, k + 1, 1) IN
       [panic |-> rest.panic,
        rows  |-> << [i \in 1 .. Len(chans) |-> chans[i][k]] >> \o rest.rows]

\* flat_map over whole rows that drops the rows after the first.
flat_map_first_row(rows, extra) ==
  IF rows = << >> THEN << >> ELSE Head(rows) \o extra

\* .flat_map(|(r, ..)| [r, .., alpha]).collect(): extra is what the closure
\* appends to every row.
RECURSIVE flat_map(_, _)
flat_map(rows, extra) ==
  IF rows = << >> THEN << >>
  ELSE Head(rows) \o extra \o flat_map(Tail(rows), extra)

Err(r, count, cs) ==
  [r |-> r, count |-> count, cs |-> cs, format |-> "none",
   width |-> 0, height |-> 0, data |-> << >>]

\* Image::get_pixels
get_pixels(img, alpha, chk) ==
  LET comps == img.comps IN
  IF comps = << >> THEN Err("UnsupportedComponentsError", 0, "none")
  ELSE
  LET width     == comps[1].w
      height    == comps[1].h
      max_prec  == fold_max_prec(0, comps)
      arm       == match_arm(Len(comps), has_alpha(comps), max_prec, alpha)
      bits      == channel_bits(max_prec)
      chans     == [j \in 1 .. Len(comps) |-> data_uT(bits, comps[j], chk)]
      len_panic == \E j \in DOMAIN comps : data_len(comps[j], chk) = Overflow
      collected == zip_collect(chans, 1, 1)
      extra     == IF arm.const_alpha THEN << as_uT(alpha.v, bits) >> ELSE << >>
  IN IF ~color_space_supported(img.color_space)
     THEN Err("UnsupportedColorSpaceError", 0, img.color_space)
     ELSE IF arm = NoArm
     THEN Err("UnsupportedComponentsError", Len(comps), "none")
     ELSE IF len_panic \/ collected.panic THEN Err("panic", 0, "none")
     ELSE [r |-> "Ok", count |-> 0, cs |-> "none", format |-> arm.format,
           width |-> width, height |-> height,
           data |-> flat_map(collected.rows, extra)]

\* ------------------------------------------------------- images explored
\* Most components an image has, and the dimensions of a full component.
MaxComps == 5
FullW == 3
FullH == 2

\* The precision of all components but one, and of that one; <<0, 0>> is an
\* image no component of which has any precision.
PrecPairs ==
  { <<8, 8>>, <<1, 8>>, <<8, 16>>, <<16, 16>>, <<12, 5>>, <<8, 17>>,
    <<0, 0>> }

\* Caller alphas: none, 0, the largest byte, and one that needs 9 bits.
Alphas == { None, Some(0), Some(255), Some(300) }

\* Sample k of component j: within the precision's range, different from
\* channel to channel and from sample to sample; a signed component starts
\* at first, -1 or 0.
sample_at(j, k, prec, sgnd, first) ==
  IF prec = 0 THEN 0
  ELSE IF sgnd THEN Min(first + k - 1, sample_hi(prec, TRUE))
  ELSE (7 * j + 3 * k) % Pow2(prec)

Component(j, w, h, prec, sgnd, alpha, first) ==
  [w |-> w, h |-> h, prec |-> prec, sgnd |-> sgnd, alpha |-> alpha,
   data |-> [k \in 1 .. w * h |-> sample_at(j, k, prec, sgnd, first)]]

\* An image of n components: component dp has the odd precision, component
\* da (if any) the alpha flag, component ds (if any) is subsampled to 1 x 1,
\* and the first component is signed when sg is not "none".  The odd
\* precision and the alpha flag are explored on the first and on the last
\* component, the subsampling on the first and on the second.
MakeImage(cs, n, pp, dp, da, ds, sg) ==
  [color_space |-> cs,
   comps |-> [j \in 1 .. n |->
     Component(j, IF j = ds THEN 1 ELSE FullW, IF j = ds THEN 1 ELSE FullH,
               IF j = dp THEN pp[2] ELSE pp[1],
               j = 1 /\ sg # "none", j = da,
               IF sg = "neg" THEN 0 - 1 ELSE 0)]]

InitPixels ==
  /\ Loaded
  /\ \E cs \in ColorSpaces, n \in 0 .. MaxComps, pp \in PrecPairs,
        sg \in {"none", "neg", "nonneg"} :
       \E dp \in {1, n}, da \in {0, 1, n}, ds \in {0, 1, 2} :
         image = MakeImage(cs, n, pp, dp, da, ds, sg)
  /\ alpha_default \in Alphas
  /\ pixels = NoPixels
  /\ scaled = NoScaled

\* image.get_pixels(alpha_default) on the image the caller owns.
GetPixels ==
  /\ imgOwner = "caller"
  /\ raster = "alive"
  /\ pixels = NoPixels
  /\ scaled = NoScaled
  /\ \E chk \in BOOLEAN : pixels' = get_pixels(image, alpha_default, chk)
  /\ UNCHANGED << threads, pipeVars, image, alpha_default, scaled >>

NextPixels == GetPixels

SpecPixels == InitPixels /\ [][NextPixels]_vars


\* ------------------------------------------------------------ sample array
\* A component of w x h samples as the codec allocates it: the array holds
\* w * h samples, whatever the width of the integers that count them.
RasterComponent(w, h) ==
  [w |-> w, h |-> h, prec |-> 8, sgnd |-> FALSE, alpha |-> FALSE,
   data |-> [k \in 1 .. w * h |-> k % 256]]

InitData ==
  /\ Loaded
  /\ \E w \in 0 .. Pow2(DimBits) - 1, h \in 0 .. Pow2(DimBits) - 1 :
       image = [color_space |-> "Gray", comps |-> << RasterComponent(w, h) >>]
  /\ alpha_default = None
  /\ pixels = NoPixels
  /\ scaled = NoScaled

\* component.data()
Data ==
  /\ Len(image.comps) = 1
  /\ scaled = NoScaled
  /\ \E chk \in BOOLEAN :
       scaled' = [fn |-> "data",
                  panic |-> data_len(image.comps[1], chk) = Overflow,
                  data |-> data(image.comps[1], chk)]
  /\ UNCHANGED << threads, pipeVars, image, alpha_default, pixels >>

NextData == Data

SpecData == InitData /\ [][NextData]_vars


\* ------------------------------------------------------ concurrent decodes
\* The callback context registered for the stream of decode t, if every
\* stream were given the context of the first.
p_data_shared(t) == 1

\* The callback context (p_data) registered for the stream of decode t: the
\* Box<WrappedSlice> its own Stream::from_bytes made.
p_data(t) == t

CallRecord(op, n, ret, bytes) == [op |-> op, n |-> n, ret |-> ret, bytes |-> bytes]

\* The callbacks as the codec of one decode sees them: what comes back.
read_call(b, off, n) ==
  LET r == buf_read_stream_read_fn(b, off, FreshOut, FALSE, n) IN
  [offset |-> r.offset, rec |-> CallRecord("read", n, r.ret, SubSeq(r.out, 1, r.ret))]
skip_call(b, off, n) ==
  LET r == buf_read_stream_skip_fn(b, off, n) IN
  [offset |-> r.offset, rec |-> CallRecord("skip", n, r.ret, << >>)]
seek_call(b, off, n) ==
  LET r == buf_read_stream_seek_fn(b, n) IN
  [offset |-> r.offset, rec |-> CallRecord("seek", n, r.ret, << >>)]

\* threads after a callback of decode t that moved the cursor of the context
\* it was given and returned rec.
after_callback(t, c) ==
  [u \in DOMAIN threads |->
     [pc     |-> threads[u].pc,
      offset |-> IF u = p_data(t) THEN c.offset ELSE threads[u].offset,
      trace  |-> IF u = t THEN Append(threads[u].trace, c.rec)
                 ELSE threads[u].trace]]

\* The callbacks made so far by decodes 1 .. n.
RECURSIVE calls_made(_)
calls_made(n) ==
  IF n = 0 THEN 0 ELSE Len(threads[n].trace) + calls_made(n - 1)

InCodec(t) ==
  /\ threads[t].pc = "decoding"
  /\ calls_made(NThreads) < MaxCalls

\* Image::from_bytes on thread t: Stream::from_bytes(buf), then the codec.
ThreadFromBytes(t) ==
  /\ threads[t].pc = "start"
  /\ threads' = [threads EXCEPT ![t] = [pc |-> "decoding", offset |-> 0,
                                        trace |-> << >>]]
  /\ UNCHANGED << pipeVars, pixVars >>

ThreadReadFn(t) ==
  /\ InCodec(t)
  /\ \E n \in {MaxLen} :
       threads' = after_callback(t, read_call(buf, threads[p_data(t)].offset, n))
  /\ UNCHANGED << pipeVars, pixVars >>

ThreadSkipFn(t) ==
  /\ InCodec(t)
  /\ \E n \in {1} :
       threads' = after_callback(t, skip_call(buf, threads[p_data(t)].offset, n))
  /\ UNCHANGED << pipeVars, pixVars >>

ThreadSeekFn(t) ==
  /\ InCodec(t)
  /\ \E n \in {0} :
       threads' = after_callback(t, seek_call(buf, threads[p_data(t)].offset, n))
  /\ UNCHANGED << pipeVars, pixVars >>

\* The decode of thread t returns; its decoder and stream are dropped.
ThreadDone(t) ==
  /\ threads[t].pc = "decoding"
  /\ threads' = [threads EXCEPT ![t].pc = "done"]
  /\ UNCHANGED << pipeVars, pixVars >>

InitThreads ==
  /\ Init
  /\ mode = "bytes"

NextThreads ==
  \E t \in 1 .. NThreads :
    \/ ThreadFromBytes(t)
    \/ ThreadReadFn(t)
    \/ ThreadSkipFn(t)
    \/ ThreadSeekFn(t)
    \/ ThreadDone(t)

SpecThreads == InitThreads /\ [][NextThreads]_vars


\* ================================================================== claims
Range(s) == { s[i] : i \in DOMAIN s }
Last(s) == s[Len(s)]
L == Len(buf)

\* ---- C1: after any sequence of read, skip and seek callbacks, whatever
\* their arguments (oversized reads, negative skip and seek values), the
\* cursor stays within the buffer: 0 <= cursor <= L.
C1_CursorInBounds == 0 <= offset /\ offset <= L

\* A negative skip count arrived while the cursor was inside the buffer.
C1_Witness ==
  /\ call.op = "skip"
  /\ call.n < 0
  /\ call.c > 0
  /\ call.c < L

\* ---- C2: read(n), n > 0, into an output buffer at cursor c copies exactly
\* k = min(n, L - c) bytes buf[c .. c+k] to output positions 0..k, leaves the
\* positions from k on untouched, moves the cursor to c + k and returns k; at
\* c = L it returns 0 and changes neither the output nor the cursor.
C2_ReadCopies ==
  (call.op = "read" /\ call.n > 0 /\ ~call.nul) =>
    LET k == Min(call.n, L - call.c) IN
    /\ call.ret = k
    /\ offset = call.c + k
    /\ Len(out) = MaxReq
    /\ \A i \in 1 .. k : out[i] = buf[call.c + i]
    /\ \A i \in (k + 1) .. MaxReq : out[i] = FreshOut[i]
    /\ (call.c = L => call.ret = 0 /\ out = FreshOut /\ offset = call.c)

\* A read that asked for more than was left, from inside the buffer.
C2_Witness ==
  /\ call.op = "read"
  /\ ~call.nul
  /\ call.c > 0
  /\ call.n > L - call.c
  /\ call.ret > 0
  /\ call.ret < call.n

\* ---- C3: skip(n), n >= 0, at cursor c sets the cursor to min(c + n, L)
\* and returns the new cursor position.
C3_SkipClamps ==
  (call.op = "skip" /\ call.n >= 0) =>
    /\ offset = Min(call.c + call.n, L)
    /\ call.ret = offset

\* A skip from inside the buffer that would have passed its end.
C3_Witness ==
  /\ call.op = "skip"
  /\ call.n = I64Max
  /\ call.c > 0
  /\ call.c < L
  /\ call.ret = L

\* ---- C4 (as stated): seek(pos) sets the cursor to min(pos, L) and reports
\* success (1) if and only if pos <= L; when pos > L it reports failure (0)
\* and leaves the cursor at L.
C4_SeekAsStated ==
  (call.op = "seek") =>
    /\ offset = Min(call.n, L)
    /\ (call.ret = 1 <=> call.n <= L)
    /\ (call.n > L => call.ret = 0 /\ offset = L)

\* ---- C4 (amended): seek(pos) with 0 <= pos <= L sets the cursor to pos and
\* reports success (1); with pos > L or pos < 0 it reports failure (0) and
\* leaves the cursor at L, not at its value before the call.
C4_SeekAmended ==
  (call.op = "seek") =>
    IF 0 <= call.n /\ call.n <= L
    THEN offset = call.n /\ call.ret = 1
    ELSE offset = L /\ call.ret = 0

\* A seek past the end from a cursor that was not at the end.
C4_Witness ==
  /\ call.op = "seek"
  /\ call.n > L
  /\ call.c < L
  /\ call.ret = 0
  /\ offset = L

\* ---- C5: a zero-length request, read(0) or skip(0), at any cursor position
\* returns 0 and leaves the cursor (and for read the output buffer) unchanged.
C5_ZeroLengthNoOp ==
  (call.op \in {"read", "skip"} /\ call.n = 0) =>
    /\ call.ret = 0
    /\ offset = call.c
    /\ (call.op = "read" => out = FreshOut)

\* ---- C6: the callback context is handed to the foreign stream at creation
\* and freed exactly once, by the free callback when the Stream is dropped:
\* never twice, never while a callback can still be invoked on it, and never
\* left unfreed once the Stream is dropped.
C6_ContextFreedExactlyOnce ==
  /\ ctxFrees <= 1
  /\ (stream = "live" /\ ctx # "none" => ctx = "handed")
  /\ (CallbackPossible => ctx = "handed")
  /\ (stream = "dropped" /\ ctx # "none" => ctx = "freed" /\ ctxFrees = 1)

\* ---- C7: a load runs Decoder::new, setup, read_header, set_decode_area,
\* decode in that order, each only after the previous one succeeded; the
\* first failing step's error is what the load returns, nothing runs after
\* it, and an Image is returned only when all five succeeded.
LoadOrder == << "Decoder::new", "setup", "read_header", "set_decode_area", "decode" >>

LoadCallRank(f) ==
  CASE f \in {"opj_stream_default_create", "opj_stream_create_default_file_stream"} -> 0
    [] f = "opj_create_decompress" -> 1
    [] f = "opj_setup_decoder" -> 2
    [] f = "opj_decoder_set_strict_mode" -> 3
    [] f = "opj_read_header" -> 4
    [] f = "opj_set_decode_area" -> 5
    [] f = "opj_decode" -> 6
    [] f = "opj_end_decompress" -> 7

C7_LoadStepsInOrder ==
  (mode \in {"bytes", "file"}) =>
    /\ Len(steps) <= Len(LoadOrder)
    /\ \A i \in 1 .. Len(steps) : steps[i].m = LoadOrder[i]
    /\ \A i \in 1 .. (Len(steps) - 1) : steps[i].r = "Ok"
    /\ \A i \in 1 .. (Len(calls) - 1) :
         /\ LoadCallRank(calls[i].f) < LoadCallRank(calls[i + 1].f)
         /\ (i > 1 => calls[i].ok)
    /\ (steps # << >> /\ Last(steps).r # "Ok" =>
          pc = "failed" /\ result = Last(steps).r /\ imgOwner = "none")
    /\ (result = "Ok" <=>
          Len(steps) = Len(LoadOrder) /\ \A i \in 1 .. Len(steps) : steps[i].r = "Ok")
    /\ (imgOwner = "caller" => result = "Ok")
    /\ (pc = "done" => result = "Ok" /\ imgOwner = "caller")

\* A load that failed in its third step, read_header, and returned its error.
C7_Witness ==
  /\ mode = "bytes"
  /\ pc = "failed"
  /\ Len(steps) = 3
  /\ Last(steps).r = "CodecError"
  /\ result = "CodecError"

\* ---- C8: a non-null raster yielded by the foreign read-header call is
\* owned by an Image wrapper from then on and destroyed exactly once on every
\* path: inside the pipeline when read_header, set_decode_area or decode
\* fails, or by the caller dropping the returned Image; never leaked, never
\* destroyed twice.
C8_RasterDestroyedOnce ==
  (mode \in {"bytes", "file"}) =>
    /\ rasterDestroys <= 1
    /\ (raster = "destroyed" <=> rasterDestroys = 1)
    /\ (raster = "alive" => imgOwner \in {"pipeline", "caller"})
    /\ (pc \in {"failed", "dropped"} => raster \in {"none", "destroyed"})
    /\ (pc = "done" => raster = "alive" /\ imgOwner = "caller")

\* read_header reported failure after it had allocated a raster.
C8_Witness ==
  /\ pc = "failed"
  /\ steps # << >>
  /\ Last(steps) = Step("read_header", "CodecError")
  /\ raster = "destroyed"
  /\ rasterDestroys = 1

\* ---- C9: Decoder.decode returns Ok if and only if opj_decode and then
\* opj_end_decompress both report success; opj_end_decompress is not invoked
\* when opj_decode fails; either failure yields a CodecError.
C9_DecodeBothPhases ==
  /\ \A i \in 1 .. Len(calls) :
       calls[i].f = "opj_end_decompress" =>
         i > 1 /\ calls[i - 1] = Foreign("opj_decode", TRUE)
  /\ \A i \in 1 .. Len(steps) :
       steps[i].m = "decode" =>
         /\ steps[i].r \in {"Ok", "CodecError"}
         /\ (steps[i].r = "Ok" <=>
               /\ Foreign("opj_decode", TRUE) \in Range(calls)
               /\ Foreign("opj_end_decompress", TRUE) \in Range(calls))
  /\ (Foreign("opj_decode", FALSE) \in Range(calls) =>
        steps # << >> /\ Last(steps) = Step("decode", "CodecError"))
  /\ ((\E ok \in BOOLEAN : Foreign("opj_end_decompress", ok) \in Range(calls)) =>
        steps # << >> /\ Last(steps).m = "decode")

\* The decode phase succeeded and the end-of-decompression phase failed.
C9_Witness ==
  /\ Foreign("opj_decode", TRUE) \in Range(calls)
  /\ Foreign("opj_end_decompress", FALSE) \in Range(calls)
  /\ steps # << >>
  /\ Last(steps) = Step("decode", "CodecError")
  /\ result = "CodecError"

\* ---- C10: Encoder.encode invokes opj_start_compress, opj_encode and
\* opj_end_compress in that order, each at most once and only if the previous
\* one succeeded; it returns Ok if and only if all three succeeded and a
\* CodecError otherwise; Encoder.setup has succeeded before the first of them.
EncodePhases == << "opj_start_compress", "opj_encode", "opj_end_compress" >>

IsEncodePhase(c) == c.f \in Range(EncodePhases)

C10_EncodePhasesInOrder ==
  LET ph == SelectSeq(calls, IsEncodePhase) IN
  /\ Len(ph) <= Len(EncodePhases)
  /\ \A i \in 1 .. Len(ph) : ph[i].f = EncodePhases[i]
  /\ \A i \in 1 .. (Len(ph) - 1) : ph[i].ok
  /\ (ph # << >> =>
        /\ mode = "save"
        /\ Step("setup", "Ok") \in Range(steps)
        /\ Foreign("opj_setup_encoder", TRUE) \in Range(calls)
        /\ Last(steps).m = "encode"
        /\ Last(steps).r \in {"Ok", "CodecError"}
        /\ (Last(steps).r = "Ok" <=>
              Len(ph) = Len(EncodePhases) /\ \A i \in 1 .. Len(ph) : ph[i].ok)
        /\ result = Last(steps).r)
  /\ (mode = "save" /\ result = "Ok" => Len(ph) = Len(EncodePhases))

\* A save whose second phase, opj_encode, failed.
C10_Witness ==
  /\ mode = "save"
  /\ Foreign("opj_start_compress", TRUE) \in Range(calls)
  /\ Foreign("opj_encode", FALSE) \in Range(calls)
  /\ result = "CodecError"

\* ------------------------------------------------------- rescale claims
\* The component whose iterator was drained, its samples, the target width
\* of the drained iterator and the target's largest value.
Drained == scaled.fn # "none"
Comp == image.comps[1]
TargetBits == IF scaled.fn = "data_u8" THEN 8 ELSE 16
TargetMax == Pow2(TargetBits) - 1
SourceMax == Pow2(Comp.prec) - 1

\* floor(s * n / m) for 0 <= s <= m; n = m is taken apart so that the product
\* stays within 32 bits.
FloorRatio(s, n, m) == IF n = m THEN s ELSE (s * n) \div m

\* ---- C17: for an unsigned component of precision p in 1..16 and target
\* width T in {8, 16}, data_u8/data_u16 map every sample s in 0..2^p-1 to
\* floor(s * (2^T - 1) / (2^p - 1)); 0 maps to 0 and 2^p - 1 maps to 2^T - 1,
\* and no sample is truncated by the narrowing cast.
C17_UnsignedRescale ==
  (Drained /\ ~Comp.sgnd) =>
    /\ ~scaled.panic
    /\ Len(scaled.data) = Len(Comp.data)
    /\ \A k \in DOMAIN Comp.data :
         LET s == Comp.data[k] IN
         /\ scaled.data[k] = FloorRatio(s, TargetMax, SourceMax)
         /\ s = 0 => scaled.data[k] = 0
         /\ s = SourceMax => scaled.data[k] = TargetMax

\* Witness: the largest 16-bit sample went through data_u16 and through
\* data_u8 of a lower precision.
C17_Witness ==
  /\ Drained /\ ~Comp.sgnd /\ ~scaled.panic
  /\ Comp.prec = 11 /\ scaled.fn = "data_u8"
  /\ Comp.data[2] = SourceMax /\ scaled.data[2] = 255
  /\ Comp.data[1] = SourceMax - 1 /\ scaled.data[1] = 254

\* ---- C18: for a signed component of precision p in 1..16 and target width
\* T in {8, 16}, the rescale of data_u8/data_u16 is monotonic non-decreasing
\* over the whole source range -2^(p-1) .. 2^(p-1)-1, and maps the source
\* midpoint 0 to within 1 of the target midpoint 2^(T-1).
C18_SignedMonotonic ==
  (Drained /\ Comp.sgnd) =>
    /\ ~scaled.panic
    /\ scaled.data[1] <= scaled.data[2]
    /\ \A k \in DOMAIN Comp.data :
         Comp.data[k] = 0 =>
           /\ scaled.data[k] >= Pow2(TargetBits - 1) - 1
           /\ scaled.data[k] <= Pow2(TargetBits - 1) + 1

\* ---- C19: for a signed component of precision p in 1..16 and target width
\* T in {8, 16}, every sample s in -2^(p-1) .. 2^(p-1)-1 is mapped to
\* s * 2^(T-1) / 2^(p-1) + (2^(T-1) - 1), and that value lies in 0 .. 2^T - 1,
\* so that the T-bit unsigned arithmetic neither overflows nor wraps.
C19_SignedFormula ==
  (Drained /\ Comp.sgnd) =>
    /\ ~scaled.panic
    /\ \A k \in DOMAIN Comp.data :
         LET v == i64_div(Comp.data[k] * Pow2(TargetBits - 1),
                          Pow2(Comp.prec - 1))
                  + (Pow2(TargetBits - 1) - 1)
         IN /\ v \in 0 .. TargetMax
            /\ scaled.data[k] = v

\* ---------------------------------------------------- get_pixels claims
\* What the claims say about the image given to get_pixels and its result.
Returned == pixels.r # "none"
Succeeded == pixels.r = "Ok"
NumComps == Len(image.comps)
MaxPrecision ==
  IF NumComps = 0 THEN 0
  ELSE CHOOSE m \in { image.comps[j].prec : j \in 1 .. NumComps } :
         \A j \in 1 .. NumComps : image.comps[j].prec <= m
AlphaFlag == \E j \in 1 .. NumComps : image.comps[j].alpha
SupportedColorSpace ==
  image.color_space \in {"Unspecified", "Unknown", "Gray", "SRGB"}
Formats8 == {"L8", "La8", "Rgb8", "Rgba8"}
Formats16 == {"L16", "La16", "Rgb16", "Rgba16"}
OutBits == IF pixels.format \in Formats8 THEN 8 ELSE 16

\* All components have the dimensions of the first (the spec's valid image).
UniformDims ==
  \A j \in 1 .. NumComps :
    /\ image.comps[j].w = image.comps[1].w
    /\ image.comps[j].h = image.comps[1].h

\* The shortest component array.
MinLength ==
  CHOOSE m \in { Len(image.comps[j].data) : j \in 1 .. NumComps } :
    \A j \in 1 .. NumComps : m <= Len(image.comps[j].data)

\* Sample k (1-based) of component j as the drained data_u8 / data_u16
\* iterator of the result's channel width delivers it.
Rescaled(j, k) == data_uT(OutBits, image.comps[j], FALSE)[k]

C12_ThreeComponentsSucceed ==
  (Returned /\ NumComps = 3 /\ SupportedColorSpace
     /\ MaxPrecision \in 1 .. 16) =>
    /\ Succeeded
    /\ ~alpha_default.some => pixels.format \in {"Rgb8", "Rgb16"}
    /\ alpha_default.some =>
         /\ pixels.format \in {"Rgba8", "Rgba16"}
         /\ \A k \in 1 .. MinLength :
              pixels.data[4 * k] = alpha_default.v % Pow2(OutBits)

AlphaCast == alpha_default.v % Pow2(OutBits)
NoImageData == pixels.format = "none" /\ pixels.data = << >>
ComponentsError(n) ==
  pixels.r = "UnsupportedComponentsError" /\ pixels.count = n /\ NoImageData

C16_ColorSpaceAsStated ==
  Returned =>
    /\ Succeeded => SupportedColorSpace
    /\ ~SupportedColorSpace =>
         /\ pixels.r = "UnsupportedColorSpaceError"
         /\ pixels.cs = image.color_space
         /\ NoImageData

\* ---- C16 (amended): as stated, for images with at least one component (an
\* image without components fails with UnsupportedComponentsError(0)
\* whatever its color space).
C16_ColorSpaceAmended ==
  Returned =>
    /\ Succeeded => SupportedColorSpace
    /\ (~SupportedColorSpace /\ NumComps >= 1) =>
         /\ pixels.r = "UnsupportedColorSpaceError"
         /\ pixels.cs = image.color_space
         /\ NoImageData
    /\ (~SupportedColorSpace /\ NumComps = 0) => ComponentsError(0)

\* Witness: a CMYK image whose component count and precision are
\* unsupported too was rejected for its color space.
C16_Witness ==
  /\ image.color_space = "CMYK" /\ NumComps = 5 /\ MaxPrecision = 17
  /\ alpha_default = Some(255)
  /\ pixels.r = "UnsupportedColorSpaceError" /\ pixels.cs = "CMYK"

\* ---- C20: get_pixels interleaves channels in lock-step: with C output
\* channels, output sample k*C + j is the rescaled k-th sample of channel j
\* in declared order (a caller constant alpha takes the last position), for
\* every k below the minimum of the component arrays' lengths; exactly
\* C * (minimum length) samples are emitted, so when arrays differ in length
\* emission stops at the shortest.  Stated for calls that return.
OutChannels ==
  CASE pixels.format \in {"L8", "L16"} -> 1
    [] pixels.format \in {"La8", "La16"} -> 2
    [] pixels.format \in {"Rgb8", "Rgb16"} -> 3
    [] pixels.format \in {"Rgba8", "Rgba16"} -> 4

C20_LockStepInterleave ==
  Succeeded =>
    /\ OutChannels \in {NumComps, NumComps + 1}
    /\ OutChannels = NumComps + 1 => alpha_default.some
    /\ Len(pixels.data) = OutChannels * MinLength
    /\ \A k \in 0 .. MinLength - 1 : \A j \in 1 .. OutChannels :
         pixels.data[k * OutChannels + j] =
           IF j <= NumComps THEN Rescaled(j, k + 1) ELSE AlphaCast

\* Witness: three components, the second shorter than the others, and a
\* caller alpha: one RGBA pixel was emitted, its channels all different.
C20_Witness ==
  /\ Succeeded /\ NumComps = 3 /\ alpha_default = Some(255)
  /\ Len(image.comps[2].data) = 1 /\ Len(image.comps[1].data) = FullW * FullH
  /\ pixels.format = "Rgba8"
  /\ Len(pixels.data) = 4
  /\ Cardinality({ pixels.data[i] : i \in 1 .. 4 }) = 4

\* ------------------------------------------------------- data() claims
\* ---- C21: ImageComponent::data() exposes a sample array whose length is
\* exactly the component's own width * height, for every width and height
\* representable as 32-bit unsigned integers (the product is not reduced
\* modulo 2^32).
C21_DataLengthIsProduct ==
  scaled.fn = "data" =>
    /\ ~scaled.panic
    /\ Len(scaled.data) = image.comps[1].w * image.comps[1].h

\* ------------------------------------------------ concurrent decode claims
\* What a decode running alone over buffer b gets back from the callbacks cs
\* (operation and argument), its cursor starting at off.
RECURSIVE Alone(_, _, _)
Alone(b, off, cs) ==
  IF cs = << >> THEN [offset |-> off, trace |-> << >>]
  ELSE LET c == Head(cs)
           r == CASE c.op = "read" -> read_call(b, off, c.n)
                  [] c.op = "skip" -> skip_call(b, off, c.n)
                  [] c.op = "seek" -> seek_call(b, off, c.n)
           rest == Alone(b, r.offset, Tail(cs))
       IN [offset |-> rest.offset, trace |-> << r.rec >> \o rest.trace]

\* ---- C22: any number of decodes running concurrently over the same
\* borrowed buffer, each with its own stream adapter and codec handle, do
\* not interfere under any interleaving of their callbacks: each adapter's
\* cursor is changed only by its own read/skip/seek calls, and every decode
\* reads the same bytes and gets the same results as it would running alone
\* (the width and height the codec reports are computed from those).
C22_DecodesDoNotInterfere ==
  \A t \in 1 .. NThreads :
    LET alone == Alone(buf, 0, threads[t].trace) IN
    /\ threads[t].trace = alone.trace
    /\ threads[t].offset = alone.offset

\* Witness: two decodes are inside the codec at once, both have made all
\* their callbacks, and their cursors differ.
C22_Witness ==
  /\ \A t \in 1 .. 2 :
       threads[t].pc = "decoding" /\ Len(threads[t].trace) = 2
  /\ threads[1].offset # threads[2].offset
  /\ threads[1].trace[2].op = "read" /\ threads[1].trace[2].bytes # << >>
  /\ threads[2].trace[1].op = "seek"

\* ------------------------------------------------------ error kind claims
\* The steps at which the foreign codec is asked to accept a configuration.
ConfigurationSteps == { "setup", "set_decode_area" }

\* ---- C23: when the foreign codec rejects a configuration (Decoder.setup,
\* Encoder.setup or set_decode_area) the operation fails with an error kind
\* of its own, distinct from the kind returned when creation of the foreign
\* codec handle fails (CreateCodecError, the result of a failed Decoder::new
\* or Encoder::new), so a caller can tell the two apart by error kind.
C23_SetupErrorDistinct ==
  \A i \in DOMAIN steps :
    (steps[i].m \in ConfigurationSteps /\ steps[i].r # "Ok")
      => steps[i].r # "CreateCodecError"

\* ---- C24: every foreign call that yields a handle is checked at its call
\* site before the result is used: a null stream handle returned by foreign
\* stream creation (opj_stream_default_create for a buffer,
\* opj_stream_create_default_file_stream for a path) is never stored in a
\* Stream, so it is never passed to a later foreign call and never reaches
\* the stream-destroy call made when the Stream is dropped.
C24_NullStreamHandleNeverStored ==
  stream \in {"live", "dropped"} => streamHandle # "null"

\* ------------------------------------------------------------ misuse claims
\* The foreign calls of each side, and the foreign calls made so far.
DecodeSide == { "opj_create_decompress", "opj_setup_decoder",
                "opj_decoder_set_strict_mode", "opj_read_header",
                "opj_set_decode_area", "opj_decode", "opj_end_decompress" }

EncodeSide == { "opj_create_compress", "opj_setup_encoder",
                "opj_start_compress", "opj_encode", "opj_end_compress" }

Called == { calls[i].f : i \in DOMAIN calls }

\* ---- C25: no decode-side foreign call (read-header, decode,
\* end-decompress) is ever made with a stream opened for output or with a
\* compression codec, and no encode-side foreign call (start-compress,
\* encode, end-compress) with an input stream or a decompression codec:
\* handing a stream to the wrong constructor panics on an assertion before
\* any codec call is made, and is never reported as a returned error.
C25_MisuseAsserts ==
  /\ Called \cap DecodeSide # {} => isInput /\ Called \cap EncodeSide = {}
  /\ Called \cap EncodeSide # {} => ~isInput /\ Called \cap DecodeSide = {}
  /\ pc = "panicked" =>
       /\ Called \cap (DecodeSide \cup EncodeSide) = {}
       /\ steps = << >>
       /\ result = "none"

\* Witness: an output stream was handed to Decoder::new, which panicked.
C25_Witness ==
  /\ pc = "panicked"
  /\ mode = "save"
  /\ ~isInput
  /\ streamHandle = "valid"
  /\ stream = "dropped"

\* ---- C26: for every image on which get_pixels succeeds, the returned data
\* holds exactly channels * width * height samples, where width and height
\* are the ImageData fields (taken from the first component) and channels is
\* the layout's channel count, so converting the result to a DynamicImage
\* never reaches the panicking from_vec(...).expect branch, including for
\* images whose components have different dimensions.
C26_DataFillsTheImage ==
  Succeeded =>
    Len(pixels.data) = OutChannels * pixels.width * pixels.height

\* ---------------------------------------------------------- cursor claims
\* ---- C27: on a memory-backed stream the cursor never moves backwards
\* under read or skip: after read(n) or skip(n) for any argument, a negative
\* skip count included, the new cursor is >= the old cursor, and a negative
\* skip count moves the cursor to the end of the buffer; only seek can
\* decrease the cursor.
C27_CursorMonotonic ==
  call.op \in {"read", "skip"} =>
    /\ offset >= call.c
    /\ (call.op = "skip" /\ call.n < 0) => offset = L

\* Witness: a skip of -1 from inside the buffer went to the buffer's end.
C27_Witness ==
  /\ call.op = "skip"
  /\ call.n = 0 - 1
  /\ call.c = 1
  /\ L = MaxLen
  /\ offset = L
  /\ call.ret = L

\* ------------------------------------------------------ decode area claims
\* ---- C28: whenever the DecodeParameters given to a load carry a decode
\* area, set_decode_area is applied to the image after read_header and
\* before any decode of that image, both for Image::from_bytes_with /
\* from_file_with and for DumpImage::from_bytes_with / from_file_with
\* followed by DumpImage::decode: a decode never runs on the full image when
\* an area was requested.
C28_AreaSetBeforeDecode ==
  \A i \in DOMAIN calls :
    (area /\ calls[i].f = "opj_decode") =>
      \E j \in 1 .. i - 1, h \in 1 .. i - 1 :
        /\ calls[h].f = "opj_read_header"
        /\ h < j
        /\ calls[j] = Foreign("opj_set_decode_area", TRUE)

\* ------------------------------------------------------ read_header claims
\* The status opj_read_header returned, and whether it stored a raster.
HeaderStatus ==
  (CHOOSE c \in Range(calls) : c.f = "opj_read_header").ok
HeaderNonNull == raster # "none"

\* ---- C29: Decoder.read_header classifies its outcome by the image pointer
\* first and the status second: a null image yields NullPointerError
\* whatever the status code (a failed header read that allocated nothing is
\* a NullPointerError, not a CodecError), a non-null image with a failing
\* status yields CodecError, and an Image is returned only for a non-null
\* image with a success status.
C29_ReadHeaderPointerFirst ==
  \A i \in DOMAIN steps :
    steps[i].m = "read_header" =>
      /\ ~HeaderNonNull => steps[i].r = "NullPointerError"
      /\ (HeaderNonNull /\ ~HeaderStatus) => steps[i].r = "CodecError"
      /\ steps[i].r = "Ok" <=> (HeaderNonNull /\ HeaderStatus)

\* Witness: the header read failed and stored no raster.
C29_Witness ==
  /\ steps # << >>
  /\ Last(steps) = Step("read_header", "NullPointerError")
  /\ Foreign("opj_read_header", FALSE) \in Range(calls)
  /\ raster = "none"
  /\ result = "NullPointerError"

\* ---------------------------------------------------- failure order claims
\* ---- C30: get_pixels checks its failure conditions in a fixed order and
\* never panics on metadata alone: an image with zero components fails with
\* UnsupportedComponentsError(0) even when its color space is unsupported;
\* otherwise an unsupported color space fails with
\* UnsupportedColorSpaceError even when the component count or precision is
\* unsupported; and an image whose maximum precision is 0 or greater than 16
\* fails with UnsupportedComponentsError without any sample being read or
\* rescaled (no division by a zero source maximum).
C30_FailureOrder ==
  Returned =>
    IF NumComps = 0 THEN ComponentsError(0)
    ELSE IF ~SupportedColorSpace
    THEN /\ pixels.r = "UnsupportedColorSpaceError"
         /\ pixels.cs = image.color_space
         /\ NoImageData
    ELSE (MaxPrecision = 0 \/ MaxPrecision > 16) =>
           ComponentsError(NumComps)

\* Witness: a one-component image of precision 0 in a supported color space
\* was rejected for its components.
C30_Witness ==
  /\ NumComps = 1 /\ MaxPrecision = 0 /\ image.color_space = "Gray"
  /\ Len(image.comps[1].data) = FullW * FullH
  /\ alpha_default = None
  /\ pixels.r = "UnsupportedComponentsError" /\ pixels.count = 1

====
